---------------------------- MODULE Spec2Model ----------------------------
(***************************************************************************)
(* A model of parser/corpus.h: the CorpusVocabulary tables with their      *)
(* lookup, lookup-or-insert, save and load operations; the token-index     *)
(* maps of a Sentence with the synthetic ROOT index; and the string        *)
(* helper ReplaceStringInPlace of the oracle-transitions reader.           *)
(*                                                                         *)
(* Ids and list positions are 0-based as in the C++ code; a TLA+ sequence  *)
(* holds element i of a std::vector at position i + 1.                     *)
(***************************************************************************)
EXTENDS Integers, Sequences, FiniteSets, TLC

VARIABLES
  \* CorpusVocabulary, the object in focus (corpus.h:28-39)
  words_to_int, int_to_words, int_to_training_word,
  pos_to_int, int_to_pos,
  chars_to_int, int_to_chars,
  actions, actions_to_arc_labels,
  \* the persisted vocabulary: <<>> or a one-element sequence holding the
  \* five lists SerializeLists wrote (corpus.h:123-127)
  archive,
  \* history: the nine members of the vocabulary save was called on
  saved,
  \* the last vocabulary call: its name, arguments, return value, warning
  last,
  \* Sentence::words of one sentence (corpus.h:202) and an ascending
  \* iteration over it
  words, visited, iterating,
  \* ReplaceStringInPlace (corpus.h:246-254): *subject, search, replace,
  \* the local pos and the position in the loop
  subject, search, replace, pos, rpc

vocabVars == <<words_to_int, int_to_words, int_to_training_word,
               pos_to_int, int_to_pos, chars_to_int, int_to_chars,
               actions, actions_to_arc_labels>>
tableVars == <<words_to_int, int_to_words, int_to_training_word,
               pos_to_int, int_to_pos, chars_to_int, int_to_chars>>
histVars == <<archive, saved, last>>
sentVars == <<words, visited, iterating>>
replVars == <<subject, search, replace, pos, rpc>>
vars == <<vocabVars, histVars, sentVars, replVars>>

---------------------------------------------------------------------------
(* Bounds and input universes *)

\* actions_to_arc_labels is a vector that load only ever appends to; Load
\* is not taken once the result would be longer than this.
MaxArcLabels == 3

WordInputs == {"a", "b"}
TagInputs == {"N", "V"}
PosInputs == {"N"}
CharInputs == {"x"}
\* An action name, as the sequence of its lexical pieces.
ActionInputs == { <<"SHIFT">>,
                  <<"LEFT-ARC", "(", "nsubj", ")">>,
                  <<"RIGHT-ARC", "(", "root", ")">> }

---------------------------------------------------------------------------
(* unsigned: 32 bits, held as two 16-bit limbs <<high, low>> *)

Unsigned(n) == << (n \div 65536) % 65536, n % 65536 >>

\* the order of the same bits read as a signed int
SignedLess(a, b) ==
  LET high(x) == IF x[1] >= 32768 THEN x[1] - 65536 ELSE x[1]
  IN high(a) < high(b) \/ (high(a) = high(b) /\ a[2] < b[2])

UnsignedLess(a, b) == a[1] < b[1] \/ (a[1] = b[1] /\ a[2] < b[2])

UNSIGNED_MAX == << 65535, 65535 >>

---------------------------------------------------------------------------
(* CorpusVocabulary *)

BAD0 == "<BAD0>"
UNK == "<UNK>"

EmptyMap == [s \in {} |-> 0]

\* std::map::insert: keeps the old value of a key that is present
MapInsert(map, str, id) ==
  [s \in DOMAIN map \cup {str} |-> IF s \in DOMAIN map THEN map[s] ELSE id]

\* std::map::operator[] assignment: overwrites
MapAssign(map, str, id) ==
  [s \in DOMAIN map \cup {str} |-> IF s = str THEN id ELSE map[s]]

AddEntry(str, map, indexed_list) ==
  LET new_id == Len(indexed_list)
  IN [id |-> new_id,
      map |-> MapInsert(map, str, new_id),
      list |-> Append(indexed_list, str)]

GetOrAddEntryAlwaysAdds(str, map, indexed_list) ==
  AddEntry(str, map, indexed_list)

GetOrAddEntry(str, map, indexed_list) ==
  IF str \notin DOMAIN map
    THEN AddEntry(str, map, indexed_list)
    ELSE [id |-> map[str], map |-> map, list |-> indexed_list]

CountWords == Cardinality(DOMAIN words_to_int)

GetWordNoFallback(word) ==
  IF word \notin DOMAIN words_to_int
    THEN Unsigned(-1)
    ELSE Unsigned(words_to_int[word])

\* UNK is looked up without a check: it is present in every vocabulary the
\* constructor or a load of saved data leaves
GetWord(word) ==
  IF word \notin DOMAIN words_to_int
    THEN Unsigned(words_to_int[UNK])
    ELSE Unsigned(words_to_int[word])

GetPOSDefaultsToZero(word) ==
  IF word \notin DOMAIN pos_to_int
    THEN Unsigned(0)
    ELSE Unsigned(pos_to_int[word])

GetPOS(word) ==
  IF word \notin DOMAIN pos_to_int
    THEN Unsigned(-1)
    ELSE Unsigned(pos_to_int[word])

\* the pattern of ARC_ACTION_REGEX: <DIRECTION>-ARC(<label>)
ArcActionMatches(action) ==
  /\ Len(action) = 4
  /\ action[1] \in {"LEFT-ARC", "RIGHT-ARC"}
  /\ action[2] = "("
  /\ action[4] = ")"

GetLabelForAction(action) ==
  IF ArcActionMatches(action) THEN action[3] ELSE "NONE"

\* The record of a call; fresh tells, of a load, whether the vocabulary it
\* ran on was in the state the constructor leaves.
Call(op, arg, flag, ret, warn) ==
  [op |-> op, arg |-> arg, flag |-> flag, ret |-> ret, warn |-> warn,
   fresh |-> FALSE]

NoRet == Unsigned(0)

\* CorpusVocabulary(): a new vocabulary comes into focus
Construct ==
  LET w1 == AddEntry(BAD0, EmptyMap, << >>)
      w2 == AddEntry(UNK, w1.map, w1.list)
      c1 == AddEntry(BAD0, EmptyMap, << >>)
  IN /\ words_to_int' = w2.map
     /\ int_to_words' = w2.list
     /\ int_to_training_word' = << TRUE, TRUE >>
     /\ pos_to_int' = EmptyMap
     /\ int_to_pos' = << >>
     /\ chars_to_int' = c1.map
     /\ int_to_chars' = c1.list
     /\ actions' = << >>
     /\ actions_to_arc_labels' = << >>
     /\ last' = Call("Construct", "", FALSE, NoRet, FALSE)
     /\ UNCHANGED <<archive, saved, sentVars, replVars>>

\* CorpusVocabulary(const CorpusVocabulary&): the copy comes into focus
CopyConstruct ==
  /\ actions' = << >>
  /\ actions_to_arc_labels' = << >>
  /\ last' = Call("CopyConstruct", "", FALSE, NoRet, FALSE)
  /\ UNCHANGED <<tableVars, archive, saved, sentVars, replVars>>

GetWordCall(word) ==
  /\ last' = Call("GetWord", word, FALSE, GetWord(word), FALSE)
  /\ UNCHANGED <<vocabVars, archive, saved, sentVars, replVars>>

GetPOSCall(word) ==
  /\ last' = Call("GetPOS", word, FALSE, GetPOS(word), FALSE)
  /\ UNCHANGED <<vocabVars, archive, saved, sentVars, replVars>>

TrainingFlagOverwritten(old, record_as_training) == record_as_training

TrainingFlag(old, record_as_training) == old \/ record_as_training

GetOrAddWord(word, record_as_training) ==
  LET num_words == CountWords
      e == GetOrAddEntry(word, words_to_int, int_to_words)
  IN /\ words_to_int' = e.map
     /\ int_to_words' = e.list
     /\ int_to_training_word' =
          IF Cardinality(DOMAIN e.map) > num_words
            THEN Append(int_to_training_word, record_as_training)
            ELSE [int_to_training_word EXCEPT ![e.id + 1] =
                    TrainingFlag(@, record_as_training)]
     /\ last' = Call("GetOrAddWord", word, record_as_training,
                     Unsigned(e.id), FALSE)
     /\ UNCHANGED <<pos_to_int, int_to_pos, chars_to_int, int_to_chars,
                    actions, actions_to_arc_labels, archive, saved,
                    sentVars, replVars>>

GetOrAddPOS(tag) ==
  LET e == GetOrAddEntry(tag, pos_to_int, int_to_pos)
  IN /\ pos_to_int' = e.map
     /\ int_to_pos' = e.list
     /\ last' = Call("GetOrAddPOS", tag, FALSE, Unsigned(e.id), FALSE)
     /\ UNCHANGED <<words_to_int, int_to_words, int_to_training_word,
                    chars_to_int, int_to_chars, actions,
                    actions_to_arc_labels, archive, saved,
                    sentVars, replVars>>

GetOrAddChar(ch) ==
  LET e == GetOrAddEntry(ch, chars_to_int, int_to_chars)
  IN /\ chars_to_int' = e.map
     /\ int_to_chars' = e.list
     /\ last' = Call("GetOrAddChar", ch, FALSE, Unsigned(e.id), FALSE)
     /\ UNCHANGED <<words_to_int, int_to_words, int_to_training_word,
                    pos_to_int, int_to_pos, actions,
                    actions_to_arc_labels, archive, saved,
                    sentVars, replVars>>

IndexOf(list, x) == CHOOSE i \in 1..Len(list) : list[i] = x

\* Registration of an action met in training data: a known action keeps
\* its position; a new one is appended together with its arc label.
RecordAction(action) ==
  /\ IF \E i \in 1..Len(actions) : actions[i] = action
       THEN /\ last' = Call("RecordAction", "", FALSE,
                            Unsigned(IndexOf(actions, action) - 1), FALSE)
            /\ UNCHANGED <<actions, actions_to_arc_labels>>
       ELSE /\ actions' = Append(actions, action)
            /\ actions_to_arc_labels' =
                 Append(actions_to_arc_labels, GetLabelForAction(action))
            /\ last' = Call("RecordAction", "", FALSE,
                            Unsigned(Len(actions)), FALSE)
  /\ UNCHANGED <<tableVars, archive, saved, sentVars, replVars>>

\* what SerializeLists writes for the object in focus
SerializeLists ==
  [int_to_words |-> int_to_words,
   int_to_pos |-> int_to_pos,
   int_to_chars |-> int_to_chars,
   int_to_training_word |-> int_to_training_word,
   actions |-> actions]

Snapshot ==
  [words_to_int |-> words_to_int,
   int_to_words |-> int_to_words,
   int_to_training_word |-> int_to_training_word,
   pos_to_int |-> pos_to_int,
   int_to_pos |-> int_to_pos,
   chars_to_int |-> chars_to_int,
   int_to_chars |-> int_to_chars,
   actions |-> actions,
   actions_to_arc_labels |-> actions_to_arc_labels]

Save ==
  /\ archive' = << SerializeLists >>
  /\ saved' = Snapshot
  /\ last' = Call("Save", "", FALSE, NoRet, FALSE)
  /\ UNCHANGED <<vocabVars, sentVars, replVars>>

RECURSIVE ReverseMappingFrom(_, _, _)
ReverseMappingFrom(list, i, map) ==
  IF i >= Len(list) THEN map
  ELSE ReverseMappingFrom(list, i + 1, MapAssign(map, list[i + 1], i))

ReverseMappingOneBased(list) ==
  [s \in {list[i] : i \in 1..Len(list)} |->
     CHOOSE i \in 1..Len(list) : list[i] = s]

\* for (i = 0; i < list.size(); ++i) map[list[i]] = i, on a cleared map
ReverseMapping(list) == ReverseMappingFrom(list, 0, EmptyMap)

RECURSIVE PushBackLabels(_, _, _)
PushBackLabels(labels, acts, i) ==
  IF i > Len(acts) THEN labels
  ELSE PushBackLabels(Append(labels, GetLabelForAction(acts[i])), acts, i + 1)

ArcLabelsNotRebuilt(labels, acts) == labels

\* for (action : actions) actions_to_arc_labels.push_back(label of action)
ArcLabelsAfterLoad(labels, acts) == PushBackLabels(labels, acts, 1)

LostWordsWarningOffByOne(num_existing_words, num_loaded_words) ==
  num_loaded_words <= num_existing_words

LostWordsWarning(num_existing_words, num_loaded_words) ==
  num_loaded_words < num_existing_words

\* the state the constructor leaves
IsFresh ==
  /\ int_to_words = << BAD0, UNK >>
  /\ words_to_int = ReverseMapping(int_to_words)
  /\ int_to_training_word = << TRUE, TRUE >>
  /\ int_to_pos = << >> /\ pos_to_int = EmptyMap
  /\ int_to_chars = << BAD0 >>
  /\ chars_to_int = ReverseMapping(int_to_chars)
  /\ actions = << >> /\ actions_to_arc_labels = << >>

Load ==
  /\ archive # << >>
  /\ Len(actions_to_arc_labels) + Len(archive[1].actions) <= MaxArcLabels
  /\ LET num_existing_words == Len(int_to_words)
         ar == archive[1]
     IN /\ int_to_words' = ar.int_to_words
        /\ int_to_pos' = ar.int_to_pos
        /\ int_to_chars' = ar.int_to_chars
        /\ int_to_training_word' = ar.int_to_training_word
        /\ actions' = ar.actions
        /\ words_to_int' = ReverseMapping(ar.int_to_words)
        /\ pos_to_int' = ReverseMapping(ar.int_to_pos)
        /\ chars_to_int' = ReverseMapping(ar.int_to_chars)
        /\ actions_to_arc_labels' =
             ArcLabelsAfterLoad(actions_to_arc_labels, ar.actions)
        /\ last' = [Call("Load", "", FALSE, NoRet,
                         LostWordsWarning(num_existing_words,
                                          Len(ar.int_to_words)))
                      EXCEPT !.fresh = IsFresh]
  /\ UNCHANGED <<archive, saved, sentVars, replVars>>

---------------------------------------------------------------------------
(* Sentence and Corpus::ROOT_TOKEN_ID *)

\* static constexpr unsigned ROOT_TOKEN_ID = -1
ROOT_TOKEN_ID == Unsigned(-1)

\* Token indices of real tokens: small ones, one beyond 16 bits, the first
\* with the top bit set, and the largest index below the ROOT index.
TokenIndexInputs ==
  { Unsigned(0), Unsigned(1), Unsigned(65536), << 32768, 0 >>, Unsigned(-2) }

WordIdInputs == {1, 2}

\* sentence[token_index] = word_id on the std::map<unsigned, unsigned>
PutToken(token_index, word_id) ==
  /\ ~iterating
  /\ words' = [k \in DOMAIN words \cup {token_index} |->
                 IF k = token_index THEN word_id ELSE words[k]]
  /\ visited' = << >>
  /\ UNCHANGED <<iterating, vocabVars, histVars, replVars>>

PutRoot(word_id) == PutToken(ROOT_TOKEN_ID, word_id)

\* the least key under std::less<unsigned>
LeastKey(keys) ==
  CHOOSE k \in keys : \A j \in keys \ {k} : UnsignedLess(k, j)

Visited == {visited[i] : i \in 1..Len(visited)}

\* for (auto& entry : sentence.words): begin()
BeginIteration ==
  /\ ~iterating
  /\ iterating' = TRUE
  /\ visited' = << >>
  /\ UNCHANGED <<words, vocabVars, histVars, replVars>>

\* ++iterator: the next entry in ascending key order
VisitNext ==
  /\ iterating
  /\ DOMAIN words \ Visited # {}
  /\ visited' = Append(visited, LeastKey(DOMAIN words \ Visited))
  /\ UNCHANGED <<words, iterating, vocabVars, histVars, replVars>>

\* iterator == end()
EndIteration ==
  /\ iterating
  /\ DOMAIN words \ Visited = {}
  /\ iterating' = FALSE
  /\ UNCHANGED <<words, visited, vocabVars, histVars, replVars>>

---------------------------------------------------------------------------
(* ReplaceStringInPlace; a string is a sequence of characters *)

MaxSubjectLen == 3
MaxSearchLen == 2
MaxReplaceLen == 2

Alphabet == {"a", "b"}

Strings(n) == UNION { [1..k -> Alphabet] : k \in 0..n }

\* std::string::max_size(): above every length a non-empty search can
\* produce from the inputs, so only unbounded growth reaches it
StringMaxSize == MaxSubjectLen * MaxReplaceLen + MaxSubjectLen + 1

\* std::string::npos, which no position of a string equals
npos == -1

\* subject->find(search, from): the first position >= from where search
\* occurs, npos when there is none; the empty string occurs at every
\* position up to size()
Find(str, srch, from) ==
  LET at == { p \in from..(Len(str) - Len(srch)) :
                SubSeq(str, p + 1, p + Len(srch)) = srch }
  IN IF at = {} THEN npos
     ELSE CHOOSE p \in at : \A q \in at : p <= q

\* subject->replace(at, len, repl)
Replaced(str, at, len, repl) ==
  SubSeq(str, 1, at) \o repl \o SubSeq(str, at + len + 1, Len(str))

NextScanPosNotAdvanced(at, repl) == at

\* pos += replace.length()
NextScanPos(at, repl) == at + Len(repl)

\* while ((pos = subject->find(search, pos)) != std::string::npos)
FindStep ==
  /\ rpc = "find"
  /\ pos' = Find(subject, search, pos)
  /\ rpc' = IF pos' # npos THEN "replace" ELSE "done"
  /\ UNCHANGED <<subject, search, replace, vocabVars, histVars, sentVars>>

\* the loop body; replace throws std::length_error past max_size()
ReplaceStep ==
  /\ rpc = "replace"
  /\ IF Len(Replaced(subject, pos, Len(search), replace)) > StringMaxSize
       THEN /\ rpc' = "length_error"
            /\ UNCHANGED <<subject, pos>>
       ELSE /\ subject' = Replaced(subject, pos, Len(search), replace)
            /\ pos' = NextScanPos(pos, replace)
            /\ rpc' = "find"
  /\ UNCHANGED <<search, replace, vocabVars, histVars, sentVars>>

---------------------------------------------------------------------------
(* Idle values of the parts a specification does not exercise *)

SentIdle == words = EmptyMap /\ visited = << >> /\ iterating = FALSE

ReplIdle == /\ subject = << >> /\ search = << >> /\ replace = << >>
            /\ pos = 0 /\ rpc = "idle"

VocabConstructed ==
  /\ words_to_int = [s \in {BAD0, UNK} |-> IF s = BAD0 THEN 0 ELSE 1]
  /\ int_to_words = << BAD0, UNK >>
  /\ int_to_training_word = << TRUE, TRUE >>
  /\ pos_to_int = EmptyMap
  /\ int_to_pos = << >>
  /\ chars_to_int = [s \in {BAD0} |-> 0]
  /\ int_to_chars = << BAD0 >>
  /\ actions = << >>
  /\ actions_to_arc_labels = << >>
  /\ archive = << >>
  /\ saved = << >>
  /\ last = Call("Construct", "", FALSE, NoRet, FALSE)

Init == VocabConstructed /\ SentIdle /\ ReplIdle

\* Build a vocabulary, save it, construct a new one and load into it
RoundTripNext ==
  \/ /\ archive = << >>
     /\ \/ \E w \in WordInputs, f \in BOOLEAN : GetOrAddWord(w, f)
        \/ \E t \in PosInputs : GetOrAddPOS(t)
        \/ \E c \in CharInputs : GetOrAddChar(c)
        \/ \E a \in ActionInputs : RecordAction(a)
        \/ Save
  \/ /\ last.op = "Save"
     /\ Construct
  \/ /\ last.op = "Construct"
     /\ Load

RoundTripSpec == Init /\ [][RoundTripNext]_vars

\* Construction, copy construction, action registration, save and load
ActionNext ==
  \/ Construct
  \/ CopyConstruct
  \/ \E a \in ActionInputs : RecordAction(a)
  \/ Save
  \/ Load

ActionSpec == Init /\ [][ActionNext]_vars

\* Construction, copy construction, insertion into the three pairs of
\* tables, save and load
TableNext ==
  \/ Construct
  \/ CopyConstruct
  \/ \E w \in WordInputs, f \in BOOLEAN : GetOrAddWord(w, f)
  \/ \E t \in PosInputs : GetOrAddPOS(t)
  \/ \E c \in CharInputs : GetOrAddChar(c)
  \/ Save
  \/ Load

TableSpec == Init /\ [][TableNext]_vars

\* The word tables, with lookups
WordNext ==
  \/ Construct
  \/ CopyConstruct
  \/ \E w \in WordInputs \cup {UNK} : GetWordCall(w)
  \/ \E w \in WordInputs \cup {UNK}, f \in BOOLEAN : GetOrAddWord(w, f)
  \/ Save
  \/ Load

WordSpec == Init /\ [][WordNext]_vars

\* The POS tables, with lookups
PosNext ==
  \/ Construct
  \/ CopyConstruct
  \/ \E t \in TagInputs \cup {"X"} : GetPOSCall(t)
  \/ \E t \in TagInputs : GetOrAddPOS(t)
  \/ Save
  \/ Load

PosSpec == Init /\ [][PosNext]_vars

\* One sentence: tokens and ROOT are put, then the map is iterated
SentenceInit ==
  /\ VocabConstructed
  /\ words = EmptyMap /\ visited = << >> /\ iterating = FALSE
  /\ ReplIdle

SentenceNext ==
  \/ \E k \in TokenIndexInputs, w \in WordIdInputs : PutToken(k, w)
  \/ \E w \in WordIdInputs : PutRoot(w)
  \/ BeginIteration
  \/ VisitNext
  \/ EndIteration

SentenceSpec == SentenceInit /\ [][SentenceNext]_vars

\* One call of ReplaceStringInPlace on each triple of bounded strings; the
\* call runs without interruption, so its steps are taken when enabled
ReplaceInit ==
  /\ VocabConstructed
  /\ SentIdle
  /\ subject \in Strings(MaxSubjectLen)
  /\ search \in Strings(MaxSearchLen)
  /\ replace \in Strings(MaxReplaceLen)
  /\ pos = 0
  /\ rpc = "find"

ReplaceNext == FindStep \/ ReplaceStep

ReplaceSpec == ReplaceInit /\ [][ReplaceNext]_vars /\ WF_vars(ReplaceNext)

---------------------------------------------------------------------------
(* Properties *)

Range(list) == {list[i] : i \in 1..Len(list)}

\* C1: a vocabulary built by insertions and action registrations, saved,
\* and loaded into a newly constructed vocabulary comes back with the same
\* id->word, id->pos, id->char, id->is_training_word and actions, and with
\* the action->arc_label table the saved vocabulary held.
RoundTripIdentical ==
  (last.op = "Load" /\ last.fresh) =>
    /\ int_to_words = saved.int_to_words
    /\ int_to_pos = saved.int_to_pos
    /\ int_to_chars = saved.int_to_chars
    /\ int_to_training_word = saved.int_to_training_word
    /\ actions = saved.actions
    /\ actions_to_arc_labels = saved.actions_to_arc_labels

RoundTripDone ==
  /\ last.op = "Load" /\ last.fresh
  /\ Len(int_to_words) = 4
  /\ FALSE \in Range(int_to_training_word)
  /\ Len(int_to_pos) = 1
  /\ Len(int_to_chars) = 2
  /\ Len(actions) = 3
  /\ {"NONE", "nsubj", "root"} = Range(actions_to_arc_labels)

\* C2: action->arc_label has exactly one entry per action, and entry i is
\* the label derived from action i, in every state reached by construction,
\* copy construction, action registration, save and load.
ArcLabelsMatchActions ==
  /\ Len(actions_to_arc_labels) = Len(actions)
  /\ \A i \in 1..Len(actions) :
       actions_to_arc_labels[i] = GetLabelForAction(actions[i])

Inverse(map, list) ==
  /\ Cardinality(DOMAIN map) = Len(list)
  /\ \A str \in DOMAIN map :
       /\ map[str] \in 0..(Len(list) - 1)
       /\ list[map[str] + 1] = str
  /\ \A i \in 1..Len(list) :
       /\ list[i] \in DOMAIN map
       /\ map[list[i]] = i - 1

\* C3: for words, POS tags and characters the string->id map and the
\* id->string list have the same size and are inverse to each other with
\* ids dense from 0, and there is one training flag per word id.
TablesConsistent ==
  /\ Inverse(words_to_int, int_to_words)
  /\ Inverse(pos_to_int, int_to_pos)
  /\ Inverse(chars_to_int, int_to_chars)
  /\ Len(int_to_training_word) = Len(int_to_words)

TablesLoaded ==
  /\ last.op = "Load"
  /\ Len(int_to_words) = 4
  /\ Len(int_to_pos) = 1
  /\ Len(int_to_chars) = 2

\* C4: a call of get_or_add_word leaves every training flag that was true
\* true, and with mark_as_training false on a known word changes no flag.
TrainingFlagMonotonic ==
  [][last'.op = "GetOrAddWord" =>
       /\ \A i \in 1..Len(int_to_training_word) :
            int_to_training_word[i] =>
              (i <= Len(int_to_training_word') /\ int_to_training_word'[i])
       /\ (~last'.flag /\ last'.arg \in DOMAIN words_to_int) =>
            int_to_training_word' = int_to_training_word]_vars

TrainingFlagKept ==
  /\ last.op = "GetOrAddWord"
  /\ ~last.flag
  /\ last.arg \in WordInputs
  /\ int_to_training_word[words_to_int[last.arg] + 1]

\* C5: get_or_add_word returns the id it recorded for the word; lookups
\* and insertions of any words leave the id of every known word as it was,
\* so later get_word and get_or_add_word calls return it again; and
\* get_or_add_word on a known word adds no entry to id->word, word->id or
\* id->is_training_word.
WordIdsStable ==
  [][last'.op \in {"GetOrAddWord", "GetWord"} =>
       /\ \A w \in DOMAIN words_to_int :
            /\ w \in DOMAIN words_to_int'
            /\ words_to_int'[w] = words_to_int[w]
            /\ GetWord(w)' = GetWord(w)
       /\ last'.op = "GetOrAddWord" =>
            /\ last'.arg \in DOMAIN words_to_int'
            /\ last'.ret = Unsigned(words_to_int'[last'.arg])
       /\ last'.arg \in DOMAIN words_to_int =>
            /\ last'.ret = Unsigned(words_to_int[last'.arg])
            /\ int_to_words' = int_to_words
            /\ words_to_int' = words_to_int
            /\ Len(int_to_training_word') = Len(int_to_training_word)]_vars

WordAskedAgain ==
  /\ last.op = "GetOrAddWord"
  /\ last.arg = "a"
  /\ last.ret = Unsigned(2)
  /\ int_to_words = << BAD0, UNK, "a", "b" >>

\* C6: get_word returns the id of a known text and the id 1 of the
\* unknown-word entry for any other text, and changes no table.
GetWordLooksUp ==
  /\ [](last.op = "GetWord" =>
          IF last.arg \in DOMAIN words_to_int
            THEN /\ last.ret = Unsigned(words_to_int[last.arg])
                 /\ int_to_words[words_to_int[last.arg] + 1] = last.arg
            ELSE /\ last.ret = Unsigned(1)
                 /\ int_to_words[2] = UNK)
  /\ [][last'.op = "GetWord" => UNCHANGED <<vocabVars, archive>>]_vars

UnknownWordAsked ==
  /\ last.op = "GetWord"
  /\ last.arg \notin DOMAIN words_to_int
  /\ last.ret = Unsigned(1)
  /\ Len(int_to_words) = 3

\* C7: get_pos on a tag that is not in the vocabulary returns unsigned -1,
\* which is the id of no POS tag, not the unknown-word id and not the
\* first tag's id, and inserts nothing; on a known tag it returns its id.
GetPOSSentinel ==
  /\ [](last.op = "GetPOS" =>
          IF last.arg \in DOMAIN pos_to_int
            THEN /\ last.ret = Unsigned(pos_to_int[last.arg])
                 /\ int_to_pos[pos_to_int[last.arg] + 1] = last.arg
            ELSE /\ last.ret = UNSIGNED_MAX
                 /\ \A i \in 0..Len(int_to_pos) : last.ret # Unsigned(i)
                 /\ last.ret # GetWord(last.arg))
  /\ [][last'.op = "GetPOS" => UNCHANGED <<vocabVars, archive>>]_vars

UnknownTagAsked ==
  /\ last.op = "GetPOS"
  /\ last.arg \notin DOMAIN pos_to_int
  /\ Len(int_to_pos) = 2

\* C8: load warns exactly when the persisted data holds fewer words than
\* the vocabulary held, and in both cases ends with id->word and word->id
\* holding the persisted words and no others.
LoadWarnsOnShrinkage ==
  [][last'.op = "Load" =>
       /\ last'.warn <=> (Len(archive[1].int_to_words) < Len(int_to_words))
       /\ int_to_words' = archive[1].int_to_words
       /\ DOMAIN words_to_int' = Range(archive[1].int_to_words)]_vars

ShrunkByLoad ==
  /\ last.op = "Load"
  /\ last.warn
  /\ int_to_words = << BAD0, UNK, "b" >>

RECURSIVE Ascending(_)
Ascending(list) ==
  \/ Len(list) <= 1
  \/ /\ UnsignedLess(list[1], list[2])
     /\ Ascending(Tail(list))

\* C9: the ROOT index is the largest unsigned value, and an ascending
\* iteration over a sentence that holds it visits it after every other
\* token index.
RootVisitedLast ==
  /\ ROOT_TOKEN_ID = UNSIGNED_MAX
  /\ Ascending(visited)
  /\ (ROOT_TOKEN_ID \in DOMAIN words /\ Visited = DOMAIN words) =>
       visited[Len(visited)] = ROOT_TOKEN_ID
  /\ \A i \in 1..Len(visited) :
       visited[i] = ROOT_TOKEN_ID => i = Cardinality(DOMAIN words)

RootIterated ==
  /\ ROOT_TOKEN_ID \in DOMAIN words
  /\ Visited = DOMAIN words
  /\ Cardinality(DOMAIN words) = 6

\* C10, as stated: the call ends for every subject, search and replacement,
\* the empty search string included.
ReplaceAlwaysEnds == <>(rpc \in {"done", "length_error"})

\* C10, amended: the call ends for every subject, every search string that
\* is not empty and every replacement, and a replacement leaves the scan
\* position at the end of the text it inserted, from where the next match
\* is sought.
ReplaceEndsOnNonEmptySearch ==
  /\ (rpc = "find" /\ search # << >>) ~> (rpc = "done")
  /\ [][rpc = "replace" /\ rpc' = "find" =>
          /\ pos' = pos + Len(replace)
          /\ SubSeq(subject', pos + 1, pos') = replace]_vars
  /\ [][rpc = "find" /\ rpc' = "replace" => pos' >= pos]_vars

ReplacementContainingSearchDone ==
  /\ rpc = "done"
  /\ search = << "a" >>
  /\ replace = << "b", "a" >>
  /\ subject = << "b", "a", "b", "a", "b", "a" >>

===========================================================================
